---- MODULE Spec2Model ----
(***************************************************************************)
(* A model of check_resources.py: the quantity parsers, the aggregator,   *)
(* the collector and main's filter / sort / export pipeline.              *)
(*                                                                         *)
(* Text is a sequence of one-character strings.  A Python float is an     *)
(* IEEE binary64 value, held exactly: [m |-> the 53 significand bits,     *)
(* most significant first, e |-> the exponent of the last bit], or FZero. *)
(* Only non-negative finite values occur (the alphabet has no sign).      *)
(***************************************************************************)
EXTENDS Integers, Sequences, FiniteSets, TLC

\* ------------------------------------------------------------ optionals
\* Python's None and a present value, as a sequence of length 0 or 1.
None == <<>>
Some(x) == <<x>>

Max(a, b) == IF a >= b THEN a ELSE b
Min(a, b) == IF a <= b THEN a ELSE b

\* ------------------------------------------------- binary64 arithmetic
\* The significand width of a Python float.
Precision == 53

Zeros(k) == [i \in 1..k |-> 0]

\* The w-bit binary form of v, most significant bit first.
NatToBits(v, w) == [i \in 1..w |-> (v \div 2^(w - i)) % 2]

RECURSIVE BitsNat(_)
\* The number a short bit sequence (at most 30 bits) stands for.
BitsNat(b) ==
    IF b = <<>> THEN 0
    ELSE 2 * BitsNat(SubSeq(b, 1, Len(b) - 1)) + b[Len(b)]

StripZeros(b) ==
    IF \A i \in 1..Len(b) : b[i] = 0 THEN <<>>
    ELSE LET f == CHOOSE i \in 1..Len(b) :
                      b[i] = 1 /\ \A j \in 1..(i - 1) : b[j] = 0
         IN  SubSeq(b, f, Len(b))

\* Long naturals are added and multiplied 16 bits at a time.
Chunk(a, c) == BitsNat(SubSeq(a, 16 * c - 15, 16 * c))
PadTo(a, n) == Zeros(n - Len(a)) \o a

\* One 16-bit column: the chunk value t plus the carry of the columns r to
\* its right, put in front of them.
Column(t, r) ==
    [s     |-> NatToBits((t + r.carry) % 65536, 16) \o r.s,
     carry |-> (t + r.carry) \div 65536]

\* The columns and the last carry as one bit sequence, w bits for the carry.
Carried(r, w) == StripZeros(NatToBits(r.carry, w) \o r.s)

RECURSIVE MulAddFrom(_, _, _, _, _)
\* The columns c..nc of a * m + b.
MulAddFrom(a, m, b, c, nc) ==
    IF c > nc THEN [s |-> <<>>, carry |-> 0]
    ELSE Column(Chunk(a, c) * m + Chunk(b, c), MulAddFrom(a, m, b, c + 1, nc))

\* The exact value of a * m + b, for naturals a and b given as bit sequences
\* and an integer 1 <= m < 2^14.
BMulAdd(a, m, b) ==
    LET nc == (Max(Len(a), Len(b)) + 15) \div 16
    IN  Carried(MulAddFrom(PadTo(a, 16 * nc), m, PadTo(b, 16 * nc), 1, nc), 15)

FZero == [m |-> <<>>, e |-> 0]

\* A significand of Precision bits, or of one more after a carry out of the
\* rounding increment (its last bit is then 0).
Normal(m, e) ==
    IF Len(m) > Precision THEN [m |-> SubSeq(m, 1, Precision), e |-> e + 1]
    ELSE [m |-> m, e |-> e]

\* Round the exact value bits * 2^e (plus a non-zero tail below the last bit
\* when sticky) to the nearest binary64, ties to even.
FRound(bits, e, sticky) ==
    LET L == Len(bits)
    IN  IF L <= Precision
        THEN [m |-> bits \o Zeros(Precision - L), e |-> e - (Precision - L)]
        ELSE LET keep  == SubSeq(bits, 1, Precision)
                 guard == bits[Precision + 1]
                 rest  == sticky \/ \E i \in (Precision + 2)..L : bits[i] = 1
                 up    == guard = 1 /\ (rest \/ keep[Precision] = 1)
                 e2    == e + (L - Precision)
             IN  Normal(BMulAdd(keep, 1, IF up THEN <<1>> ELSE <<>>), e2)

FRoundOf(x) == FRound(x.bits, x.e, x.sticky)

\* Python float + float.
FAdd(x, y) ==
    IF x.m = <<>> THEN y
    ELSE IF y.m = <<>> THEN x
    ELSE LET e == Min(x.e, y.e)
         IN  FRound(BMulAdd(x.m \o Zeros(x.e - e), 1, y.m \o Zeros(y.e - e)),
                    e, FALSE)

\* Python float * int, for a small int c >= 1.
FMulInt(x, c) ==
    IF x.m = <<>> THEN x ELSE FRound(BMulAdd(x.m, c, <<>>), x.e, FALSE)

\* Python float * 2^j (a factor that is a power of two: the product is exact).
FScale(x, j) == IF x.m = <<>> THEN x ELSE [m |-> x.m, e |-> x.e + j]

RECURSIVE Expand(_, _, _, _)
\* The binary expansion of (bits + r/d) * 2^e, 0 <= r < d <= 10^6, carried on
\* eight bits at a time until there are more than Precision significant bits
\* or the remainder is 0.
Expand(bits, r, d, e) ==
    IF r = 0 \/ Len(bits) > Precision
    THEN [bits |-> bits, e |-> e, sticky |-> r # 0]
    ELSE LET t == r * 256
         IN  Expand(StripZeros(bits \o NatToBits(t \div d, 8)), t % d, d, e - 8)

\* The binary64 nearest to the decimal n / d (what strtod returns), n < 2^30.
DecToFloat(n, d) ==
    IF n = 0 THEN FZero
    ELSE FRoundOf(Expand(StripZeros(NatToBits(n \div d, 30)), n % d, d, 0))

\* The float of a small natural number.
FromInt(n) == DecToFloat(n, 1)

\* The integer nearest to p / 2^k, ties to even, for a natural p given as
\* bits (the result is below 2^31).
HalfEven(p, k) ==
    LET L     == Len(p)
        int   == IF k <= 0 THEN p \o Zeros(0 - k) ELSE SubSeq(p, 1, L - k)
        guard == k >= 1 /\ k <= L /\ p[L - k + 1] = 1
        rest  == \E i \in (L - Min(k, L + 1) + 2)..L : p[i] = 1
        odd   == int # <<>> /\ int[Len(int)] = 1
    IN  BitsNat(int) + (IF guard /\ (rest \/ odd) THEN 1 ELSE 0)

\* round(x, 1): x correctly rounded to one decimal, ties to even, given as
\* the integer T of tenths; the float Python returns is FromTenths(T).
round1(x) ==
    IF x.m = <<>> THEN 0 ELSE HalfEven(BMulAdd(x.m, 10, <<>>), 0 - x.e)

FromTenths(t) == DecToFloat(t, 10)

\* ----------------------------------------------------------------- text
\* The printable ASCII characters in code-point order: Ascii[i] has code
\* point 31 + i (the backslash and the backtick, which no text of the model
\* holds, are spelled out).  str comparison and str.lower go by code point.
Ascii == <<
    " ", "!", "\"", "#", "$", "%", "&", "'", "(", ")", "*", "+", ",", "-",
    ".", "/", "0", "1", "2", "3", "4", "5", "6", "7", "8", "9", ":", ";",
    "<", "=", ">", "?", "@", "A", "B", "C", "D", "E", "F", "G", "H", "I",
    "J", "K", "L", "M", "N", "O", "P", "Q", "R", "S", "T", "U", "V", "W",
    "X", "Y", "Z", "[", "backslash", "]", "^", "_", "backtick", "a", "b", "c", "d", "e",
    "f", "g", "h", "i", "j", "k", "l", "m", "n", "o", "p", "q", "r", "s",
    "t", "u", "v", "w", "x", "y", "z", "{", "|", "}", "~"
>>

Ord(c) == 31 + (CHOOSE i \in 1..Len(Ascii) : Ascii[i] = c)

\* c.lower() for one ASCII character.
LowerChar(c) ==
    IF Ord(c) >= 65 /\ Ord(c) <= 90 THEN Ascii[Ord(c) + 32 - 31] ELSE c

\* s.lower()
lower(s) == [i \in 1..Len(s) |-> LowerChar(s[i])]

\* f in s, for two str
contains(s, f) ==
    \E i \in 0..(Len(s) - Len(f)) : SubSeq(s, i + 1, i + Len(f)) = f

\* s.endswith(suffix)
endswith(s, suffix) ==
    /\ Len(s) >= Len(suffix)
    /\ SubSeq(s, Len(s) - Len(suffix) + 1, Len(s)) = suffix

\* s < t for two str: the first differing code point decides, a proper
\* prefix comes first.
StrLess(s, t) ==
    \E i \in 1..(Min(Len(s), Len(t)) + 1) :
        /\ \A j \in 1..(i - 1) : s[j] = t[j]
        /\ IF i > Len(s) THEN i <= Len(t)
           ELSE i <= Len(t) /\ Ord(s[i]) < Ord(t[i])

\* not value, for an optional str: None and the empty str are both falsy.
Falsy(value) == value = None \/ value = Some(<<>>)

\* ------------------------------------------------------ quantity parser
\* A raised exception, as a value.
Raise(type) == [error |-> type]
IsError(x) == DOMAIN x = {"error"}
ValueError == Raise("ValueError")

DecimalDigits == <<"0", "1", "2", "3", "4", "5", "6", "7", "8", "9">>
IsDigit(c) == \E i \in 1..10 : DecimalDigits[i] = c
DigitVal(c) == (CHOOSE i \in 1..10 : DecimalDigits[i] = c) - 1

RECURSIVE DigitsNat(_)
DigitsNat(ds) ==
    IF ds = <<>> THEN 0
    ELSE 10 * DigitsNat(SubSeq(ds, 1, Len(ds) - 1)) + DigitVal(ds[Len(ds)])

\* A faulty conversion: text that is no number is taken as zero.
float_or_zero(s) ==
    LET dots == {i \in 1..Len(s) : s[i] = "."}
        digs == {i \in 1..Len(s) : IsDigit(s[i])}
    IN  IF \/ Cardinality(dots) + Cardinality(digs) # Len(s)
           \/ Cardinality(dots) > 1
           \/ digs = {}
        THEN FZero
        ELSE LET k == IF dots = {} THEN 0
                      ELSE Len(s) - (CHOOSE i \in dots : TRUE)
             IN  DecToFloat(DigitsNat(SelectSeq(s, IsDigit)), 10^k)

\* float(s) for a str over the model's alphabet (digits, the point, letters): a
\* decimal literal with at least one digit and at most one point, no sign
\* and no exponent, is converted to the nearest binary64; anything else
\* raises ValueError.
float(s) ==
    LET dots == {i \in 1..Len(s) : s[i] = "."}
        digs == {i \in 1..Len(s) : IsDigit(s[i])}
    IN  IF \/ Cardinality(dots) + Cardinality(digs) # Len(s)
           \/ Cardinality(dots) > 1
           \/ digs = {}
        THEN ValueError
        ELSE LET k == IF dots = {} THEN 0
                      ELSE Len(s) - (CHOOSE i \in dots : TRUE)
             IN  DecToFloat(DigitsNat(SelectSeq(s, IsDigit)), 10^k)

\* x * c, or the exception the conversion to x raised.
times(x, c) == IF IsError(x) THEN x ELSE FMulInt(x, c)

\* A faulty parse_cpu: cores are not converted to millicores.
parse_cpu_unconverted(value) ==
    IF Falsy(value) THEN FZero
    ELSE LET v == value[1]
         IN  float(IF endswith(v, <<"m">>) THEN SubSeq(v, 1, Len(v) - 1) ELSE v)

parse_cpu(value) ==
    IF Falsy(value) THEN FZero
    ELSE LET v     == value[1]
             milli == endswith(v, <<"m">>)
         IN  times(float(IF milli THEN SubSeq(v, 1, Len(v) - 1) ELSE v),
                   IF milli THEN 1 ELSE 1000)

\* A faulty units dict: Ti is taken as 1024 (2^10) rather than 1024**2.
units_ti_as_gi == <<
    [suffix |-> <<"K", "i">>, log2factor |-> -10],
    [suffix |-> <<"M", "i">>, log2factor |-> 0],
    [suffix |-> <<"G", "i">>, log2factor |-> 10],
    [suffix |-> <<"T", "i">>, log2factor |-> 10],
    [suffix |-> <<"k">>,      log2factor |-> -10],
    [suffix |-> <<"M">>,      log2factor |-> 0],
    [suffix |-> <<"G">>,      log2factor |-> 10] >>

\* The units dict in insertion order; every factor is a power of two, held
\* as its exponent (1/1024 = 2^-10, 1024**2 = 2^20).
units == <<
    [suffix |-> <<"K", "i">>, log2factor |-> -10],
    [suffix |-> <<"M", "i">>, log2factor |-> 0],
    [suffix |-> <<"G", "i">>, log2factor |-> 10],
    [suffix |-> <<"T", "i">>, log2factor |-> 20],
    [suffix |-> <<"k">>,      log2factor |-> -10],
    [suffix |-> <<"M">>,      log2factor |-> 0],
    [suffix |-> <<"G">>,      log2factor |-> 10] >>

\* x * 2^j, or the exception the conversion to x raised.
scaled(x, j) == IF IsError(x) THEN x ELSE FScale(x, j)

\* The loop returns at the first suffix of units, in order, the value ends
\* with; when it ends with none, the value is bytes, divided by 1024**2.
parse_memory(value) ==
    IF Falsy(value) THEN FZero
    ELSE LET v    == value[1]
             hits == {i \in 1..Len(units) : endswith(v, units[i].suffix)}
             i    == IF hits = {} THEN 0
                     ELSE CHOOSE h \in hits : \A g \in hits : h <= g
         IN  scaled(float(IF i = 0 THEN v
                          ELSE SubSeq(v, 1, Len(v) - Len(units[i].suffix))),
                    IF i = 0 THEN -20 ELSE units[i].log2factor)

\* ----------------------------------------------------------- aggregator
EmptyDict == [cpu |-> None, memory |-> None]

\* c.resources or client.V1ResourceRequirements()
resources_or_default(c) ==
    IF c.resources = None THEN [requests |-> None, limits |-> None]
    ELSE c.resources[1]

\* d or {}, and d.get(key) as the record's field (None when the key is absent)
dict_or_empty(d) == IF d = None THEN EmptyDict ELSE d[1]

\* The four totals, by the names of the loop's accumulators.
Totals == {"req_cpu", "req_mem", "lim_cpu", "lim_mem"}

\* The argument of the parse call that feeds total f for container c:
\* req.get or lim.get of cpu or memory.
quantity_of(c, f) ==
    LET res == resources_or_default(c)
        d   == dict_or_empty(IF f \in {"req_cpu", "req_mem"} THEN res.requests
                             ELSE res.limits)
    IN  IF f \in {"req_cpu", "lim_cpu"} THEN d.cpu ELSE d.memory

\* The parse call that feeds total f.
parse_for(f, value) ==
    IF f \in {"req_cpu", "lim_cpu"} THEN parse_cpu(value) ELSE parse_memory(value)

\* The four parse calls of one run of the loop body.
parsed(c) == [f \in Totals |-> parse_for(f, quantity_of(c, f))]

\* The loop body: the totals t with the parsed quantities p added, or the
\* exception an earlier run or one of the parse calls raised.
add_parsed(t, p) ==
    IF IsError(t) THEN t
    ELSE IF \E f \in Totals : IsError(p[f]) THEN ValueError
    ELSE [f \in Totals |-> FAdd(t[f], p[f])]

RECURSIVE aggregate_loop(_, _)
\* The four totals after the loop body has run for containers[1..n], or the
\* exception a parse raised on the way.
aggregate_loop(containers, n) ==
    IF n = 0 THEN [f \in Totals |-> FZero]
    ELSE add_parsed(aggregate_loop(containers, n - 1), parsed(containers[n]))

aggregate_containers(containers) == aggregate_loop(containers, Len(containers))

\* ------------------------------------------------------------ collector
KindDeployment == <<"D", "e", "p", "l", "o", "y", "m", "e", "n", "t">>
KindStatefulSet == <<"S", "t", "a", "t", "e", "f", "u", "l", "S", "e", "t">>

\* One summary row for workload w, or the exception aggregate_containers
\* raised.  A rounded float field holds its number of tenths T, the float
\* itself being FromTenths(T).
row(kind, w, t) ==
    IF IsError(t) THEN t
    ELSE [kind               |-> kind,
          namespace          |-> w.namespace,
          name               |-> w.name,
          replicas           |-> IF w.replicas = None THEN 0 ELSE w.replicas[1],
          req_cpu_per_pod_m  |-> t["req_cpu"],
          req_mem_per_pod_mi |-> t["req_mem"],
          lim_cpu_per_pod_m  |-> t["lim_cpu"],
          lim_mem_per_pod_mi |-> t["lim_mem"]]

\* round(x, 1) of each of the four totals.
rounded(t) == IF IsError(t) THEN t ELSE [f \in Totals |-> round1(t[f])]

\* w.spec.template.spec.containers or []
containers_or_empty(w) == IF w.containers = None THEN <<>> ELSE w.containers[1]

\* A faulty row: the totals are multiplied by the replica count.
times_replicas(t, n) ==
    IF IsError(t) THEN t
    ELSE [f \in Totals |-> IF n = 0 THEN FZero ELSE FMulInt(t[f], n)]

row_of_all_replicas(kind, w) ==
    row(kind, w, rounded(times_replicas(
        aggregate_containers(containers_or_empty(w)),
        IF w.replicas = None THEN 0 ELSE w.replicas[1])))

row_of(kind, w) ==
    row(kind, w, rounded(aggregate_containers(containers_or_empty(w))))

RECURSIVE rows_of(_, _)
\* The rows appended for the first n of the (kind, workload) pairs.
rows_of(pairs, n) ==
    IF n = 0 THEN <<>>
    ELSE Append(rows_of(pairs, n - 1), row_of(pairs[n][1], pairs[n][2]))

\* What collect_workloads hands to main: the rows, unless building one of
\* them raised.
returned(all) ==
    IF \E i \in 1..Len(all) : IsError(all[i]) THEN ValueError
    ELSE [rows |-> all]

\* A faulty loop order: the StatefulSets are taken first.
collect_rows_statefulsets_first(deps, sts) ==
    LET pairs == [i \in 1..(Len(sts) + Len(deps)) |->
                     IF i <= Len(sts) THEN <<KindStatefulSet, sts[i]>>
                     ELSE <<KindDeployment, deps[i - Len(sts)]>>]
    IN  returned(rows_of(pairs, Len(pairs)))

\* The loop over both kinds, Deployments first: the rows in the order
\* appended, or the exception raised on the way.
collect_rows(deps, sts) ==
    LET pairs == [i \in 1..(Len(deps) + Len(sts)) |->
                     IF i <= Len(deps) THEN <<KindDeployment, deps[i]>>
                     ELSE <<KindStatefulSet, sts[i - Len(deps)]>>]
    IN  returned(rows_of(pairs, Len(pairs)))

\* What the API client returns for a list call: the cluster's workloads of
\* the kind, those of one namespace for a namespaced call.
list_all(workloads) == workloads
list_namespaced(workloads, namespace) ==
    SelectSeq(workloads, LAMBDA w : w.namespace = namespace)

\* ------------------------------------------------- filter, sort, export
\* A faulty filter: the namespace is not looked at.
filter_rows_by_name(rs, filter) ==
    SelectSeq(rs, LAMBDA r : contains(lower(r.name), lower(filter)))

\* The list comprehension of main, for a truthy filter.
filter_rows(rs, filter) ==
    LET f == lower(filter)
    IN  SelectSeq(rs, LAMBDA r : \/ contains(lower(r.name), f)
                                 \/ contains(lower(r.namespace), f))

\* A faulty sort key: the name alone.
name_less(a, b) == StrLess(a.name, b.name)

\* The sort key (namespace, kind, name) of a before that of b: tuples
\* compare by their first differing component.
key_less(a, b) ==
    \/ StrLess(a.namespace, b.namespace)
    \/ /\ a.namespace = b.namespace
       /\ \/ StrLess(a.kind, b.kind)
          \/ a.kind = b.kind /\ StrLess(a.name, b.name)

RECURSIVE sort_rows(_)
\* list.sort(key=...): ascending and stable (rows with equal keys keep
\* their order), as an insertion sort.
sort_rows(rs) ==
    IF rs = <<>> THEN <<>>
    ELSE LET n    == Len(rs)
             head == sort_rows(SubSeq(rs, 1, n - 1))
             k    == Cardinality({i \in 1..(n - 1) : ~key_less(rs[n], head[i])})
         IN  SubSeq(head, 1, k) \o <<rs[n]>> \o SubSeq(head, k + 1, n - 1)

RECURSIVE IntStr(_)
\* str(n) for an int n >= 0
IntStr(n) ==
    IF n < 10 THEN <<DecimalDigits[n + 1]>>
    ELSE Append(IntStr(n \div 10), DecimalDigits[(n % 10) + 1])

\* str(x) of the float of t tenths: 250.0, 0.1
FloatStr(t) == IntStr(t \div 10) \o <<".">> \o IntStr(t % 10)

RECURSIVE Join(_)
\* The fields of one CSV record joined by commas (no field of the model
\* needs quoting).
Join(fields) ==
    IF Len(fields) = 1 THEN fields[1]
    ELSE Join(SubSeq(fields, 1, Len(fields) - 1)) \o <<",">> \o fields[Len(fields)]

\* rows[0].keys(): the row dict's keys in insertion order.
fieldnames == <<
    <<"k", "i", "n", "d">>,
    <<"n", "a", "m", "e", "s", "p", "a", "c", "e">>,
    <<"n", "a", "m", "e">>,
    <<"r", "e", "p", "l", "i", "c", "a", "s">>,
    <<"r", "e", "q", "_", "c", "p", "u", "_", "p", "e", "r", "_", "p", "o", "d", "_", "m">>,
    <<"r", "e", "q", "_", "m", "e", "m", "_", "p", "e", "r", "_", "p", "o", "d", "_", "m", "i">>,
    <<"l", "i", "m", "_", "c", "p", "u", "_", "p", "e", "r", "_", "p", "o", "d", "_", "m">>,
    <<"l", "i", "m", "_", "m", "e", "m", "_", "p", "e", "r", "_", "p", "o", "d", "_", "m", "i">> >>

csv_line(r) ==
    Join(<<r.kind, r.namespace, r.name, IntStr(r.replicas),
           FloatStr(r.req_cpu_per_pod_m), FloatStr(r.req_mem_per_pod_mi),
           FloatStr(r.lim_cpu_per_pod_m), FloatStr(r.lim_mem_per_pod_mi)>>)

\* The lines of the file write_csv writes for a non-empty row list.
csv_lines(rs) == <<Join(fieldnames)>> \o [i \in 1..Len(rs) |-> csv_line(rs[i])]

\* --------------------------------------------------------------- inputs
\* The most workloads a cluster of the model holds, over both kinds.
MaxWorkloads == 2
\* The most containers of a pod template.
MaxContainers == 3

\* The sequences of n distinct elements of S.
InjSeqs(S, n) ==
    {f \in [1..n -> S] : \A i, j \in 1..n : i # j => f[i] # f[j]}

\* The sequences of at most n elements of S.
SeqsUpTo(S, n) == UNION {[1..k -> S] : k \in 0..n}

\* Containers: no resources at all, requests only, requests and limits, a
\* limits dict without the cpu key, limits only, and malformed quantities.
ContainerBare == [resources |-> None]
ContainerFull == [resources |-> Some([requests |-> Some([cpu |-> Some(<<"2", "5", "0", "m">>), memory |-> Some(<<"6", "4", "M", "i">>)]), limits |-> Some([cpu |-> Some(<<"5", "0", "0", "m">>), memory |-> Some(<<"1", "2", "8", "M", "i">>)])])]
ContainerA == [resources |-> Some([requests |-> Some([cpu |-> Some(<<"0", ".", "1", "m">>), memory |-> Some(<<"0", ".", "1", "G", "i">>)]), limits |-> None])]
ContainerB == [resources |-> Some([requests |-> Some([cpu |-> Some(<<"0", ".", "2", "m">>), memory |-> Some(<<"0", ".", "2", "G", "i">>)]), limits |-> Some([cpu |-> Some(<<"5", "0", "0", "m">>), memory |-> Some(<<"1", "2", "8", "M", "i">>)])])]
ContainerC == [resources |-> Some([requests |-> Some([cpu |-> Some(<<"0", ".", "3", "m">>), memory |-> Some(<<"0", ".", "3", "G", "i">>)]), limits |-> Some([cpu |-> None, memory |-> Some(<<"1", "3", "1", "0", "7", "2">>)])])]
ContainerD == [resources |-> Some([requests |-> None, limits |-> Some([cpu |-> Some(<<"2">>), memory |-> Some(<<"1", "G", "i">>)])])]
ContainerBadCpu == [resources |-> Some([requests |-> Some([cpu |-> Some(<<"2", "5", "0", "m">>), memory |-> Some(<<"6", "4", "M", "i">>)]), limits |-> Some([cpu |-> Some(<<"a", "b", "c">>), memory |-> Some(<<"1", "2", "8", "M", "i">>)])])]
ContainerBadMem == [resources |-> Some([requests |-> Some([cpu |-> Some(<<"2", "5", "0", "m">>), memory |-> Some(<<"1", ".", "2", ".", "3", "G", "i">>)]), limits |-> None])]

ContainerPool ==
    {ContainerBare, ContainerA, ContainerB, ContainerC, ContainerD, ContainerBadCpu}

Workload(namespace, name, replicas, containers) ==
    [namespace |-> namespace, name |-> name,
     replicas |-> replicas, containers |-> containers]

\* The workloads a cluster of Spec is drawn from; a name is unique in its
\* namespace and kind.
WorkloadPool == {
    Workload(<<"a">>, <<"w", "e", "b">>, Some(3), Some(<<ContainerFull>>)),
    Workload(<<"W", "e", "b">>, <<"d", "b">>, None, None),
    Workload(<<"b">>, <<"c", "a", "c", "h", "e">>, Some(1), Some(<<>>)),
    Workload(<<"a">>, <<"A", "p", "i">>, Some(0), Some(<<ContainerBare>>)),
    Workload(<<"b">>, <<"b", "a", "d">>, Some(2), Some(<<ContainerFull, ContainerBadMem>>)),
    Workload(<<"b">>, <<"j", "o", "b">>, Some(1), Some(<<ContainerBadCpu>>)) }

Clusters ==
    {[deployments |-> d, statefulsets |-> s] :
        <<d, s>> \in UNION {InjSeqs(WorkloadPool, i) \X InjSeqs(WorkloadPool, j) :
                               <<i, j>> \in {p \in (0..MaxWorkloads) \X (0..MaxWorkloads) :
                                               p[1] + p[2] <= MaxWorkloads}}}

\* Clusters of one workload, with every container list up to MaxContainers.
PodWorkloads ==
    {Workload(<<"a">>, <<"w", "e", "b">>, r, c) :
        r \in {None, Some(0), Some(3)},
        c \in {None} \cup {Some(cs) : cs \in SeqsUpTo(ContainerPool, MaxContainers)}}

PodClusters ==
    {[deployments |-> <<w>>, statefulsets |-> <<>>] : w \in PodWorkloads}
    \cup {[deployments |-> <<>>, statefulsets |-> <<w>>] : w \in PodWorkloads}

\* The command lines: -n absent, empty or a namespace; --filter absent,
\* empty or a string.
ArgsSet ==
    {[namespace |-> n, filter |-> f] :
        n \in {None, Some(<<>>), Some(<<"a">>)},
        f \in {None, Some(<<>>), Some(<<"W", "E", "B">>), Some(<<"z", "z">>)}}

\* The output path before the run: no file, or a file left by an earlier run.
OldFile == Some(<<<<"o", "l", "d">>>>)

\* Quantity strings: every numeric part with every suffix.
NumParts ==
    { <<>>,
      <<"0">>,
      <<"1">>,
      <<"2">>,
      <<"1", "2", "8">>,
      <<"5", "0", "0">>,
      <<"0", ".", "1">>,
      <<"0", ".", "5">>,
      <<"1", ".", "5">>,
      <<".", "5">>,
      <<"1", ".">>,
      <<".">>,
      <<"x">>,
      <<"1", "x">>,
      <<"1", ".", "2", ".", "3">>,
      <<"1", "3", "1", "0", "7", "2">>,
      <<"0", ".", "0", "7">> }

SuffixParts ==
    { <<>>,
      <<"m">>,
      <<"K", "i">>,
      <<"M", "i">>,
      <<"G", "i">>,
      <<"T", "i">>,
      <<"k">>,
      <<"M">>,
      <<"G">>,
      <<"T">>,
      <<"i">>,
      <<"m", "i">>,
      <<"K", "i", "m">> }

QuantityTexts == {n \o s : n \in NumParts, s \in SuffixParts}

\* The direct calls: a parser on a quantity, the aggregator on a list.
FnCalls ==
    {[fn |-> f, value |-> v, containers |-> <<>>] :
        f \in {"parse_cpu", "parse_memory"},
        v \in {None} \cup {Some(t) : t \in QuantityTexts}}
    \cup {[fn |-> "aggregate_containers", value |-> None, containers |-> cs] :
             cs \in SeqsUpTo(ContainerPool, MaxContainers)}

NoCall == [fn |-> "none", value |-> None, containers |-> <<>>]

\* ---------------------------------------------------------------- state
VARIABLES
    args,           \* the parsed command line
    cluster,        \* the workloads the API server holds, per kind
    file0,          \* the output path's content when the run starts
    file,           \* the output path's content: None, or Some(lines)
    pc,             \* main's position
    deployments,    \* collect_workloads' local
    statefulsets,   \* collect_workloads' local
    rows,           \* main's rows
    collected,      \* rows as collect_workloads returned them
    filtered,       \* rows as the filter left them
    calls,          \* the list calls issued to the API client, in order
    stdout,         \* the messages printed
    error,          \* the uncaught exception that ended the run, or None
    call,           \* a direct call of a pure function and its argument
    result          \* what that call returned

vars == <<args, cluster, file0, file, pc, deployments, statefulsets, rows,
          collected, filtered, calls, stdout, error, call, result>>

Locals0 ==
    /\ deployments = <<>>
    /\ statefulsets = <<>>
    /\ rows = <<>>
    /\ collected = <<>>
    /\ filtered = <<>>
    /\ calls = <<>>
    /\ stdout = <<>>
    /\ error = None
    /\ result = None

\* A run of main on a cluster of up to MaxWorkloads workloads.
Init ==
    /\ args \in ArgsSet
    /\ cluster \in Clusters
    /\ file0 \in {None, OldFile}
    /\ file = file0
    /\ pc = "load_config"
    /\ call = NoCall
    /\ Locals0

\* A run of main on one workload with any container list.
PodsInit ==
    /\ args = [namespace |-> None, filter |-> None]
    /\ cluster \in PodClusters
    /\ file0 = None
    /\ file = file0
    /\ pc = "load_config"
    /\ call = NoCall
    /\ Locals0

\* A direct call of one of the pure functions.
FnInit ==
    /\ args = [namespace |-> None, filter |-> None]
    /\ cluster = [deployments |-> <<>>, statefulsets |-> <<>>]
    /\ file0 = None
    /\ file = None
    /\ pc = "call"
    /\ call \in FnCalls
    /\ Locals0

\* -------------------------------------------------------------- actions
Uncaught(type, at) == Some([type |-> type, at |-> at])

\* main: load_kube_config, and load_incluster_config when that raises
\* ConfigException; an exception of the second call is not caught.
LoadConfig ==
    /\ pc = "load_config"
    /\ \E kube \in BOOLEAN, incluster \in BOOLEAN :
          IF kube \/ incluster
          THEN pc' = "list_deployments" /\ error' = error
          ELSE pc' = "failed" /\ error' = Uncaught("ConfigException", pc)
    /\ UNCHANGED <<args, cluster, file0, file, deployments, statefulsets, rows,
                   collected, filtered, calls, stdout, call, result>>

\* A faulty scope choice: the namespace argument is ignored.
list_call_all_namespaces(kind, namespace) ==
    [kind |-> kind, scope |-> "all_namespaces", namespace |-> None]

\* The list call collect_workloads issues for a kind: namespaced when the
\* namespace argument is truthy, cluster-wide otherwise.
list_call(kind, namespace) ==
    IF Falsy(namespace)
    THEN [kind |-> kind, scope |-> "all_namespaces", namespace |-> None]
    ELSE [kind |-> kind, scope |-> "namespaced", namespace |-> namespace]

\* The items of the API client's answer to a list call.
items(c, workloads) ==
    IF c.scope = "namespaced" THEN list_namespaced(workloads, c.namespace[1])
    ELSE list_all(workloads)

ListDeployments ==
    /\ pc = "list_deployments"
    /\ LET c == list_call(KindDeployment, args.namespace)
       IN  /\ calls' = Append(calls, c)
           /\ \E ok \in BOOLEAN :
                 IF ok
                 THEN /\ deployments' = items(c, cluster.deployments)
                      /\ pc' = "list_statefulsets"
                      /\ error' = error
                 ELSE /\ deployments' = deployments
                      /\ pc' = "failed"
                      /\ error' = Uncaught("ApiException", pc)
    /\ UNCHANGED <<args, cluster, file0, file, statefulsets, rows, collected,
                   filtered, stdout, call, result>>

ListStatefulSets ==
    /\ pc = "list_statefulsets"
    /\ LET c == list_call(KindStatefulSet, args.namespace)
       IN  /\ calls' = Append(calls, c)
           /\ \E ok \in BOOLEAN :
                 IF ok
                 THEN /\ statefulsets' = items(c, cluster.statefulsets)
                      /\ pc' = "build_rows"
                      /\ error' = error
                 ELSE /\ statefulsets' = statefulsets
                      /\ pc' = "failed"
                      /\ error' = Uncaught("ApiException", pc)
    /\ UNCHANGED <<args, cluster, file0, file, deployments, rows, collected,
                   filtered, stdout, call, result>>

\* The row loop of collect_workloads and its return to main.
BuildRows ==
    /\ pc = "build_rows"
    /\ \E r \in {collect_rows(deployments, statefulsets)} :
           IF IsError(r)
           THEN /\ pc' = "failed"
                /\ error' = Uncaught(r.error, pc)
                /\ UNCHANGED <<rows, collected>>
           ELSE /\ rows' = r.rows
                /\ collected' = r.rows
                /\ pc' = "filter"
                /\ error' = error
    /\ UNCHANGED <<args, cluster, file0, file, deployments, statefulsets,
                   filtered, calls, stdout, call, result>>

\* main: if args.filter: rows = [...]
Filter ==
    /\ pc = "filter"
    /\ rows' = IF Falsy(args.filter) THEN rows
               ELSE filter_rows(rows, args.filter[1])
    /\ filtered' = rows'
    /\ pc' = "sort"
    /\ UNCHANGED <<args, cluster, file0, file, deployments, statefulsets,
                   collected, calls, stdout, error, call, result>>

\* main: rows.sort(key=...)
Sort ==
    /\ pc = "sort"
    /\ rows' = sort_rows(rows)
    /\ pc' = "write_csv"
    /\ UNCHANGED <<args, cluster, file0, file, deployments, statefulsets,
                   collected, filtered, calls, stdout, error, call, result>>

NoWorkloadsFound == [msg |-> "No workloads found.", n |-> 0]
Written(n) == [msg |-> "Written n rows to output_file", n |-> n]

\* A faulty write_csv: the file is opened for writing before the row list
\* is looked at, so an empty list leaves an empty file behind.
WriteCsvOpenFirst ==
    /\ pc = "write_csv"
    /\ IF rows = <<>>
       THEN /\ file' = Some(<<>>)
            /\ stdout' = Append(stdout, NoWorkloadsFound)
       ELSE /\ file' = Some(csv_lines(rows))
            /\ stdout' = Append(stdout, Written(Len(rows)))
    /\ pc' = "done"
    /\ UNCHANGED <<args, cluster, file0, deployments, statefulsets, rows,
                   collected, filtered, calls, error, call, result>>

\* write_csv(rows, args.output) and main's return; the file is taken to open
\* and to take the writes.
WriteCsv ==
    /\ pc = "write_csv"
    /\ IF rows = <<>>
       THEN /\ stdout' = Append(stdout, NoWorkloadsFound)
            /\ file' = file
       ELSE /\ file' = Some(csv_lines(rows))
            /\ stdout' = Append(stdout, Written(Len(rows)))
    /\ pc' = "done"
    /\ UNCHANGED <<args, cluster, file0, deployments, statefulsets, rows,
                   collected, filtered, calls, error, call, result>>

CallParseCpu ==
    /\ pc = "call"
    /\ call.fn = "parse_cpu"
    /\ result' = Some(parse_cpu(call.value))
    /\ pc' = "returned"
    /\ UNCHANGED <<args, cluster, file0, file, deployments, statefulsets, rows,
                   collected, filtered, calls, stdout, error, call>>

CallParseMemory ==
    /\ pc = "call"
    /\ call.fn = "parse_memory"
    /\ result' = Some(parse_memory(call.value))
    /\ pc' = "returned"
    /\ UNCHANGED <<args, cluster, file0, file, deployments, statefulsets, rows,
                   collected, filtered, calls, stdout, error, call>>

CallAggregate ==
    /\ pc = "call"
    /\ call.fn = "aggregate_containers"
    /\ result' = Some(aggregate_containers(call.containers))
    /\ pc' = "returned"
    /\ UNCHANGED <<args, cluster, file0, file, deployments, statefulsets, rows,
                   collected, filtered, calls, stdout, error, call>>

Next ==
    \/ LoadConfig
    \/ ListDeployments
    \/ ListStatefulSets
    \/ BuildRows
    \/ Filter
    \/ Sort
    \/ WriteCsv

FnNext ==
    \/ CallParseCpu
    \/ CallParseMemory
    \/ CallAggregate

Spec == Init /\ [][Next]_vars
SpecPods == PodsInit /\ [][Next]_vars
SpecFn == FnInit /\ [][FnNext]_vars

\* ----------------------------------------------------------- properties
\* collect_workloads has returned its rows to main.
Collected == pc \in {"filter", "sort", "write_csv", "done"}

\* The workloads the two list calls returned, Deployments first.
Listed == deployments \o statefulsets

Range(seq) == {seq[i] : i \in 1..Len(seq)}
Count(seq, x) == Cardinality({i \in 1..Len(seq) : seq[i] = x})

\* C8: collect_workloads returns one row per workload the API client
\* returned, the Deployment rows in the API's order followed by the
\* StatefulSet rows in the API's order, each with the kind, namespace and name
\* of its workload.
C8_OneRowPerWorkload ==
    Collected =>
        /\ Len(collected) = Len(deployments) + Len(statefulsets)
        /\ \A i \in 1..Len(deployments) :
              /\ collected[i].kind = KindDeployment
              /\ collected[i].namespace = deployments[i].namespace
              /\ collected[i].name = deployments[i].name
        /\ \A i \in 1..Len(statefulsets) :
              LET r == collected[Len(deployments) + i]
              IN  /\ r.kind = KindStatefulSet
                  /\ r.namespace = statefulsets[i].namespace
                  /\ r.name = statefulsets[i].name

\* A Deployment and a StatefulSet, differing in name, have been collected.
C8_Witness ==
    /\ pc = "filter"
    /\ Len(deployments) = 1
    /\ Len(statefulsets) = 1
    /\ deployments[1].name # statefulsets[1].name

\* The scope the namespace argument asks for: a namespace that is absent or
\* empty asks for the whole cluster.
ExpectedCall(kind) ==
    IF args.namespace = None \/ args.namespace = Some(<<>>)
    THEN [kind |-> kind, scope |-> "all_namespaces", namespace |-> None]
    ELSE [kind |-> kind, scope |-> "namespaced", namespace |-> args.namespace]

\* C9: a run issues the Deployment list call and then the StatefulSet list
\* call, each at most once and both in the scope the namespace argument asks
\* for; after a failed list call no further call is made, the run has ended
\* with the API error and the output file is as it was.
C9_ListCalls ==
    LET both == <<ExpectedCall(KindDeployment), ExpectedCall(KindStatefulSet)>>
        n    == Len(calls)
    IN  /\ n <= 2
        /\ calls = SubSeq(both, 1, n)
        /\ n = CASE pc = "load_config" -> 0
                 [] pc = "list_deployments" -> 0
                 [] pc = "list_statefulsets" -> 1
                 [] pc = "failed" /\ error[1].at = "load_config" -> 0
                 [] pc = "failed" /\ error[1].at = "list_deployments" -> 1
                 [] OTHER -> 2
        /\ pc = "failed" /\ error[1].type = "ApiException" =>
              /\ error[1].at \in {"list_deployments", "list_statefulsets"}
              /\ file = file0
              /\ rows = <<>>
              /\ stdout = <<>>

\* The namespaced Deployment list call has failed with an output file
\* present: the StatefulSet call was never made.
C9_Witness ==
    /\ pc = "failed"
    /\ error = Uncaught("ApiException", "list_deployments")
    /\ args.namespace = Some(<<"a">>)
    /\ calls = <<[kind |-> KindDeployment, scope |-> "namespaced",
                  namespace |-> Some(<<"a">>)]>>
    /\ file = OldFile

\* The sort key of a row, and one key before another: the first component
\* in which they differ decides.
SortKey(r) == <<r.namespace, r.kind, r.name>>
KeyBefore(a, b) ==
    \E i \in 1..3 :
        /\ \A j \in 1..(i - 1) : SortKey(a)[j] = SortKey(b)[j]
        /\ StrLess(SortKey(a)[i], SortKey(b)[i])

\* C2: the row list handed to write_csv is in ascending lexicographic order
\* of (namespace, kind, name), and is a permutation of the rows the filter
\* left.
C2_SortedPermutation ==
    pc \in {"write_csv", "done"} =>
        /\ \A i, j \in 1..Len(rows) : i < j => ~KeyBefore(rows[j], rows[i])
        /\ Len(rows) = Len(filtered)
        /\ \A r \in Range(rows) \cup Range(filtered) :
              Count(rows, r) = Count(filtered, r)

\* Two rows reach write_csv in another order than the collector's.
C2_Witness ==
    /\ pc = "write_csv"
    /\ Len(rows) = 2
    /\ rows # filtered
    /\ rows = <<filtered[2], filtered[1]>>

\* f occurs in s when the case of letters is ignored.
ContainsIgnoringCase(s, f) ==
    \E i \in 0..(Len(s) - Len(f)) :
        \A k \in 1..Len(f) : LowerChar(s[i + k]) = LowerChar(f[k])

\* C3: with a non-empty filter string the rows kept are exactly the collected
\* rows whose name or whose namespace contains it, case ignored; with the
\* filter absent or empty the row list is unchanged.
C3_Filter ==
    pc \in {"sort", "write_csv", "done"} =>
        IF args.filter = None \/ args.filter = Some(<<>>)
        THEN filtered = collected
        ELSE filtered =
                SelectSeq(collected,
                          LAMBDA r : \/ ContainsIgnoringCase(r.name, args.filter[1])
                                     \/ ContainsIgnoringCase(r.namespace, args.filter[1]))

\* Filter WEB, two rows collected: db in namespace Web is kept for its
\* namespace alone, the other row is dropped.
C3_Witness ==
    /\ pc = "sort"
    /\ args.filter = Some(<<"W", "E", "B">>)
    /\ Len(collected) = 2
    /\ Len(filtered) = 1
    /\ filtered[1].namespace = <<"W", "e", "b">>
    /\ filtered[1].name = <<"d", "b">>

\* The line of the Deployment web of namespace a with three replicas and one
\* container requesting 250m / 64Mi and limited to 500m / 128Mi.
WebLine ==
    <<"D", "e", "p", "l", "o", "y", "m", "e", "n", "t", ",", "a", ",",
      "w", "e", "b", ",", "3", ",", "2", "5", "0", ".", "0", ",",
      "6", "4", ".", "0", ",", "5", "0", "0", ".", "0", ",",
      "1", "2", "8", ".", "0">>

\* C6: write_csv given an empty row list leaves the output path as it is,
\* prints the diagnostic and the run ends normally; given a non-empty list
\* it writes the header line followed by one line per row, in the rows'
\* order.
C6_WriteCsv ==
    [][pc = "write_csv" =>
          /\ pc' = "done"
          /\ error' = None
          /\ rows' = rows
          /\ IF rows = <<>>
             THEN /\ file' = file
                  /\ file = file0
                  /\ stdout' = <<NoWorkloadsFound>>
             ELSE /\ file' # None
                  /\ Len(file'[1]) = 1 + Len(rows)
                  /\ file'[1][1] = Join(fieldnames)
                  /\ \A i \in 1..Len(rows) :
                        /\ file'[1][i + 1] = csv_line(rows[i])
                        /\ (rows[i].kind = KindDeployment
                              /\ rows[i].name = <<"w", "e", "b">>)
                           => file'[1][i + 1] = WebLine]_vars

\* The filter removed every collected row and an earlier file exists: the
\* run is done, the file is the earlier one, the diagnostic is printed.
C6_Witness ==
    /\ pc = "done"
    /\ rows = <<>>
    /\ collected # <<>>
    /\ file0 = OldFile
    /\ file = OldFile
    /\ stdout = <<NoWorkloadsFound>>

\* A decimal numeral: digits with at most one point and at least one digit.
IsNumber(s) ==
    /\ \A i \in 1..Len(s) : IsDigit(s[i]) \/ s[i] = "."
    /\ Cardinality({i \in 1..Len(s) : s[i] = "."}) <= 1
    /\ \E i \in 1..Len(s) : IsDigit(s[i])

\* The memory suffixes in the order they are tested, and the base-2
\* logarithm of the factor of each.
MemorySuffixes ==
    << <<"K", "i">>, <<"M", "i">>, <<"G", "i">>, <<"T", "i">>,
       <<"k">>, <<"M">>, <<"G">> >>
MemoryLog2Factors == <<-10, 0, 10, 20, -10, 0, 10>>

\* The first suffix, in that order, text v ends with (0: none), and the
\* text before it.
FirstSuffix(v) ==
    IF \A i \in 1..7 : ~endswith(v, MemorySuffixes[i]) THEN 0
    ELSE CHOOSE i \in 1..7 :
            /\ endswith(v, MemorySuffixes[i])
            /\ \A j \in 1..(i - 1) : ~endswith(v, MemorySuffixes[j])
MemoryNumericPart(v) ==
    IF FirstSuffix(v) = 0 THEN v
    ELSE SubSeq(v, 1, Len(v) - Len(MemorySuffixes[FirstSuffix(v)]))
CpuNumericPart(v) ==
    IF Len(v) >= 1 /\ v[Len(v)] = "m" THEN SubSeq(v, 1, Len(v) - 1) ELSE v

\* A request or limit dict holds a non-empty cpu or memory string whose
\* numeric part is no number.
MalformedIn(d) ==
    /\ d # None
    /\ \/ d[1].cpu \notin {None, Some(<<>>)}
          /\ ~IsNumber(CpuNumericPart(d[1].cpu[1]))
       \/ d[1].memory \notin {None, Some(<<>>)}
          /\ ~IsNumber(MemoryNumericPart(d[1].memory[1]))

HasMalformed(w) ==
    /\ w.containers # None
    /\ \E i \in 1..Len(w.containers[1]) :
          LET c == w.containers[1][i]
          IN  /\ c.resources # None
              /\ MalformedIn(c.resources[1].requests)
                 \/ MalformedIn(c.resources[1].limits)

Contribution(c, side, resource) ==
    LET d == IF c.resources = None THEN None
             ELSE IF side = "requests" THEN c.resources[1].requests
             ELSE c.resources[1].limits
    IN  IF d = None THEN FZero
        ELSE IF resource = "cpu" THEN parse_cpu(d[1].cpu)
        ELSE parse_memory(d[1].memory)

RECURSIVE SumOfFirst(_, _, _, _)
\* The sum, by float addition in list order, over the first n containers.
SumOfFirst(cs, n, side, resource) ==
    IF n = 0 THEN FZero
    ELSE FAdd(SumOfFirst(cs, n - 1, side, resource),
              Contribution(cs[n], side, resource))

\* The sum over the containers of workload w's pod template.
PodSum(w, side, resource) ==
    IF w.containers = None THEN FZero
    ELSE SumOfFirst(w.containers[1], Len(w.containers[1]), side, resource)

\* C1, as the code has it: each of the four values of a workload's row is
\* the sum over the containers of its pod template of the parsed quantities
\* (missing resources, requests or limits adding zero), rounded to one
\* decimal place; the replica count does not enter the values, and the replicas
\* field is the workload's replica count, 0 when it is unset.
C1_RoundedSums ==
    pc = "filter" =>
        \A i \in 1..Len(collected) :
            LET w == Listed[i]
                r == collected[i]
            IN  /\ r.req_cpu_per_pod_m = round1(PodSum(w, "requests", "cpu"))
                /\ r.req_mem_per_pod_mi = round1(PodSum(w, "requests", "memory"))
                /\ r.lim_cpu_per_pod_m = round1(PodSum(w, "limits", "cpu"))
                /\ r.lim_mem_per_pod_mi = round1(PodSum(w, "limits", "memory"))
                /\ r.replicas = IF w.replicas = None THEN 0 ELSE w.replicas[1]

\* C1, as stated: each of the four values of a workload's row is the sum
\* itself, and the replicas field is the replica count, 0 when unset.
C1_ExactSums ==
    pc = "filter" =>
        \A i \in 1..Len(collected) :
            LET w == Listed[i]
                r == collected[i]
            IN  /\ FromTenths(r.req_cpu_per_pod_m) = PodSum(w, "requests", "cpu")
                /\ FromTenths(r.req_mem_per_pod_mi) = PodSum(w, "requests", "memory")
                /\ FromTenths(r.lim_cpu_per_pod_m) = PodSum(w, "limits", "cpu")
                /\ FromTenths(r.lim_mem_per_pod_mi) = PodSum(w, "limits", "memory")
                /\ r.replicas = IF w.replicas = None THEN 0 ELSE w.replicas[1]

\* A workload of three replicas whose one container has a memory limit of
\* 131072 bytes (0.125 MiB) and no cpu limit: the row holds 0.1 and 0.0.
C1_Witness ==
    /\ pc = "filter"
    /\ Len(collected) = 1
    /\ Listed[1].containers = Some(<<ContainerC>>)
    /\ collected[1].replicas = 3
    /\ collected[1].lim_mem_per_pod_mi = 1
    /\ collected[1].lim_cpu_per_pod_m = 0
    /\ collected[1].req_mem_per_pod_mi = 3072

\* The call returned a float (it raised nothing).
Returned(fn) ==
    /\ pc = "returned"
    /\ call.fn = fn
    /\ ~IsError(result[1])

\* C4: parse_memory returns 0.0 for an absent or empty value; otherwise the
\* numeric part before the first of the suffixes Ki, Mi, Gi, Ti, k, M, G the
\* value ends with, times 1/1024, 1, 1024, 1024^2, 1/1024, 1, 1024; with no
\* such suffix, the value divided by 1024^2.
C4_ParseMemory ==
    pc = "returned" /\ call.fn = "parse_memory" =>
        LET r == result[1]
        IN  IF call.value = None \/ call.value = Some(<<>>) THEN r = FZero
            ELSE LET v == call.value[1]
                     i == FirstSuffix(v)
                     x == float(MemoryNumericPart(v))
                 IN  /\ IsError(r) <=> ~IsNumber(MemoryNumericPart(v))
                     /\ ~IsError(r) =>
                           r = FScale(x, IF i = 0 THEN -20 ELSE MemoryLog2Factors[i])
                     /\ v = <<"1", "2", "8", "M", "i">> => r = FromInt(128)
                     /\ v = <<"1", "G", "i">> => r = FromInt(1024)
                     /\ v = <<"1", "3", "1", "0", "7", "2">> => r = DecToFloat(125, 1000)

\* 1.5Gi is 1536 MiB.
C4_Witness ==
    /\ Returned("parse_memory")
    /\ call.value = Some(<<"1", ".", "5", "G", "i">>)
    /\ result = Some(FromInt(1536))

\* C5: parse_cpu returns 0.0 for an absent or empty value, the numeric part
\* before a final m, and otherwise the float product of the value and 1000.
C5_ParseCpu ==
    pc = "returned" /\ call.fn = "parse_cpu" =>
        LET r == result[1]
        IN  IF call.value = None \/ call.value = Some(<<>>) THEN r = FZero
            ELSE LET v == call.value[1]
                     x == float(CpuNumericPart(v))
                 IN  /\ IsError(r) <=> ~IsNumber(CpuNumericPart(v))
                     /\ ~IsError(r) =>
                           r = IF v[Len(v)] = "m" THEN x ELSE FMulInt(x, 1000)
                     /\ v = <<"5", "0", "0", "m">> => r = FromInt(500)
                     /\ v = <<"2">> => r = FromInt(2000)

\* 1.5 cores are 1500 millicores.
C5_Witness ==
    /\ Returned("parse_cpu")
    /\ call.value = Some(<<"1", ".", "5">>)
    /\ result = Some(FromInt(1500))

\* The container list in another order: element i is cs[p[i]].
Permuted(cs, p) == [i \in 1..Len(cs) |-> cs[p[i]]]

\* C10, as stated: aggregate_containers returns the same four totals for
\* every permutation of a container list, and four zeros for the empty list.
C10_OrderIndependent ==
    pc = "returned" /\ call.fn = "aggregate_containers" =>
        /\ call.containers = <<>> => result[1] = [f \in Totals |-> FZero]
        /\ \A p \in Permutations(1..Len(call.containers)) :
              aggregate_containers(Permuted(call.containers, p)) = result[1]

\* Memory requests of 0.1Gi, 0.2Gi and 0.3Gi summed in this order and in
\* the reverse order: the request totals differ.
C10_Witness ==
    /\ Returned("aggregate_containers")
    /\ call.containers = <<ContainerA, ContainerB, ContainerC>>
    /\ result[1]["req_mem"] #
          aggregate_containers(<<ContainerC, ContainerB, ContainerA>>)["req_mem"]
    /\ result[1]["req_cpu"] #
          aggregate_containers(<<ContainerC, ContainerB, ContainerA>>)["req_cpu"]

====
